---- MODULE Spec2Model ----
(***************************************************************************)
(* Self-avoiding billiards: the trajectory simulator (single_simulation),  *)
(* the worker (sim_thread) and the coordinator (main) of src/main.rs.      *)
(*                                                                         *)
(* Geometry that the program takes from the geo crate (line_intersection,  *)
(* euclidean_distance, try_normalize) and the thread-local random source   *)
(* are inputs of the actions: every scan is given, per obstacle, either no *)
(* intersection or a single point with its distance, and every reflection  *)
(* is given whether its normalisations succeed.                            *)
(*                                                                         *)
(* Coordinates are in pixel units (already multiplied by the canvas size   *)
(* and rounded); distances are in units of half the trap threshold.        *)
(* f64 values are modelled as floats of MantissaBits significant bits with *)
(* round-to-nearest-even.                                                  *)
(***************************************************************************)
EXTENDS Integers, Sequences, FiniteSets, TLC

\* ---------------------------------------------------------------- bounds
ArenaEdges == 2        \* ARENA_EDGES (5 in the source)
SceneCapacity == 4     \* capacity of SceneLinesType (100 in the source)
Width == 2             \* canvas width  (512 in the source)
Height == 1            \* canvas height (512 in the source)
MaxDist == 2           \* largest distance an intersection is given
MaxHits == 2           \* most obstacles one ray is given to intersect
MaxCalls == 2          \* consecutive single_simulation calls in SimSpec
MantissaBits == 3      \* significant bits of the modelled f64
MaxThreads == 2        \* MAX_THREADS (25 in the source)
SimsPerReport == 1     \* NUMBER_OF_SIMS_PER_REPORT (100_000 in the source)
TotalSimulations == 1  \* total_simulations (20_000_000 in the source)
MaxBatches == 1        \* batches a worker starts unasked before it idles
MaxPrivate == 2        \* largest cell of a private canvas drawn in MergeSpec

\* --------------------------------------------------------------- constants
Epsilon == 2           \* the trap threshold 0.0001, in distance units

\* ------------------------------------------------------------------ f64
RECURSIVE Pow2(_)
Pow2(n) == IF n = 0 THEN 1 ELSE 2 * Pow2(n - 1)

\* The spacing of the floats around the non-negative real v.
RECURSIVE Ulp(_, _)
Ulp(v, u) == IF v < u * Pow2(MantissaBits) THEN u ELSE Ulp(v, 2 * u)

\* Round-to-nearest, ties to the even mantissa.
RoundF(v) ==
    LET u == Ulp(v, 1)
        lo == (v \div u) * u
        r == v - lo
    IN  IF 2 * r < u THEN lo
        ELSE IF 2 * r > u THEN lo + u
        ELSE IF (lo \div u) % 2 = 0 THEN lo ELSE lo + u

\* a + b on f64 (the += of AddAssign for f64).
FAdd(a, b) == RoundF(a + b)

\* --------------------------------------------------------------- Option
None == [some |-> FALSE]
Some(v) == [some |-> TRUE, val |-> v]

\* ------------------------------------------------------------- geometry
Coord(px, py) == [x |-> px, y |-> py]
Line(p, q) == [start |-> p, end |-> q]
CAdd(p, q) == Coord(p.x + q.x, p.y + q.y)
CScale(p, k) == Coord(p.x * k, p.y * k)

\* Directions a ray is launched in (angled_coord of a random angle) and
\* reflected in.
LaunchDirs == {Coord(1, 0)}
ReflectDirs == {Coord(0, 1)}
\* Launch points (rng.gen_range(0.0 .. 1.0) on both axes).
LaunchPoints == {Coord(0, 0), Coord(Width - 1, Height - 1)}
\* Points an intersection is given at: one left of the canvas, one on its
\* far edge, both of which the write clamps.
HitPoints == {Coord(-1, 0), Coord(Width, Height)}
Dists == 1..MaxDist
INFINITY == MaxDist + 1

NoIntersection == [single |-> FALSE]
SinglePoint(p, d) == [single |-> TRUE, pt |-> p, distance |-> d]
SinglePoints == {SinglePoint(p, d) : p \in HitPoints, d \in Dists}

\* The answers line_intersection gives for the n obstacles of a scene.
Intersections(n) ==
    UNION {{[i \in 1..n |-> IF i \in S THEN g[i] ELSE NoIntersection] :
              g \in [S -> SinglePoints]} :
           S \in {T \in SUBSET (1..n) : Cardinality(T) <= MaxHits}}

\* The answers of the try_normalize calls of one reflection: none when a
\* vector is degenerate, else the reflected direction.
Reflections == {None} \cup {Some(d) : d \in ReflectDirs}

\* ---------------------------------------------------------------- canvas
Cells == 0..(Width * Height - 1)
NewCanvas == [c \in Cells |-> 0]

clamp(v, lo, hi) == IF v < lo THEN lo ELSE IF v > hi THEN hi ELSE v
\* f64 as usize saturates at 0.
AsUsize(v) == IF v < 0 THEN 0 ELSE v

\* The cell single_simulation writes for a collision point.
PixelIndex(p) ==
    LET px == clamp(AsUsize(p.x), 0, Width - 1)
        py == clamp(AsUsize(p.y), 0, Height - 1)
    IN  px + Width * py

\* The shader of main: the path length.
shader(start_pos, path_length, no_bounces) == path_length

\* ----------------------------------------------------------------- arena
initial_arena == [i \in 1..ArenaEdges |->
                    Line(Coord(i - 1, 0), Coord(i % ArenaEdges, 0))]

is_full(v) == Len(v) = SceneCapacity
\* heapless push: Err when the vec is full.
push(v, e) == IF is_full(v) THEN None ELSE Some(Append(v, e))
truncate(v, n) == IF n < Len(v) THEN SubSeq(v, 1, n) ELSE v

\* -------------------------------------------------- test_ball_with_scene
RECURSIVE ScanFrom(_, _, _, _)
ScanFrom(i, result, scene, isect) ==
    IF i > Len(scene) THEN result
    ELSE IF ~isect[i].single THEN ScanFrom(i + 1, result, scene, isect)
    ELSE LET distance == isect[i].distance
             closest_distance_so_far ==
                 IF result.some THEN result.val.distance ELSE INFINITY
         IN  IF distance < closest_distance_so_far
             THEN ScanFrom(i + 1,
                           Some([line |-> scene[i], pt |-> isect[i].pt,
                                 distance |-> distance]),
                           scene, isect)
             ELSE ScanFrom(i + 1, result, scene, isect)

\* The scan comparing with <=: among equal distances the last one wins.
test_ball_with_scene_LastWins(ball, scene, isect) ==
    LET hits == {i \in 1..Len(scene) : isect[i].single}
        nearest == {i \in hits :
                      \A j \in hits : isect[i].distance <= isect[j].distance}
    IN  IF hits = {} THEN None
        ELSE LET i == CHOOSE k \in nearest : \A j \in nearest : j <= k
             IN  Some([line |-> scene[i], pt |-> isect[i].pt,
                       distance |-> isect[i].distance])

test_ball_with_scene(ball, scene, isect) == ScanFrom(1, None, scene, isect)

\* ------------------------------------------------------------ reflection
reflection(ball_start, line, intersection, norm) ==
    IF norm.some
    THEN Some(Line(intersection, CAdd(intersection, CScale(norm.val, 100))))
    ELSE None

\* ------------------------------------------------------ single_simulation
\* The locals of one call: s.canvas and s.obstacles are the caller's.
\* shader_calls, scans and outcome record what the call did.
SimStart(cv, obs, start_pos, dir) ==
    [canvas |-> cv, obstacles |-> obs,
     clean_scene_size |-> Len(obs),
     start_pos |-> start_pos,
     ball |-> Line(start_pos, CAdd(start_pos, CScale(dir, 10))),
     path_length |-> 0, no_bounces |-> 0,
     brk |-> FALSE, shader_calls |-> 0, scans |-> 0, refl_failed |-> 0,
     outcome |-> "running"]

\* canvas.data[x + canvas.width * y] += canvas_shader(...)
WritePixel(s, col_point) ==
    [s EXCEPT !.canvas[PixelIndex(col_point)] =
                  FAdd(@, shader(s.start_pos, s.path_length, s.no_bounces)),
              !.shader_calls = @ + 1]

\* distance < 0.0001 || obstacles.is_full(): write and break.
TrappedBranch(s, hit) ==
    [WritePixel(s, hit.pt) EXCEPT
        !.brk = TRUE,
        !.outcome = IF hit.distance < Epsilon THEN "trapped_eps"
                    ELSE "trapped_full"]

\* ball.start + 0.0001 * direction: the step is below the pixel unit.
MoveForward(ball) == ball

\* The bounce branch pushing the wall only once the reflection succeeded.
BounceBranch_PushAfterReflect(s, hit, norm) ==
    LET vec == push(s.obstacles, Line(s.ball.start, hit.pt))
        refl == reflection(s.ball.start, hit.line, hit.pt, norm)
    IN  IF ~refl.some
        THEN [WritePixel(s, hit.pt) EXCEPT !.refl_failed = @ + 1]
        ELSE IF ~vec.some
        THEN [s EXCEPT !.brk = TRUE, !.outcome = "panic"]
        ELSE [s EXCEPT !.obstacles = vec.val, !.ball = MoveForward(refl.val)]

\* else: push the wall (unwrap: a push on a full vec panics), reflect, move
\* the ball forward.  A failed reflection writes and falls through.
BounceBranch(s, hit, norm) ==
    LET vec == push(s.obstacles, Line(s.ball.start, hit.pt))
        refl == reflection(s.ball.start, hit.line, hit.pt, norm)
    IN  IF ~vec.some
        THEN [s EXCEPT !.brk = TRUE, !.outcome = "panic"]
        ELSE LET pushed == [s EXCEPT !.obstacles = vec.val]
                 after == IF refl.some
                          THEN [pushed EXCEPT !.ball = refl.val]
                          ELSE [WritePixel(pushed, hit.pt) EXCEPT
                                   !.refl_failed = @ + 1]
             IN  [after EXCEPT !.ball = MoveForward(@)]

\* The None arm writing at the ray's start before it breaks.
EscapedBranch_Writes(s) ==
    [WritePixel([s EXCEPT !.path_length = FAdd(@, 1)], s.ball.start) EXCEPT
        !.brk = TRUE, !.outcome = "escaped"]

\* None => break.
EscapedBranch(s) == [s EXCEPT !.brk = TRUE, !.outcome = "escaped"]

\* The loop body testing the distance only, not obstacles.is_full().
LoopBody_NoFullCheck(s, isect, norm) ==
    LET found == test_ball_with_scene(s.ball, s.obstacles, isect)
        t == [s EXCEPT !.scans = @ + 1]
    IN  IF found.some
        THEN LET hit == found.val
                 u == [t EXCEPT !.path_length = FAdd(@, hit.distance),
                                !.no_bounces = @ + 1]
             IN  IF hit.distance < Epsilon
                 THEN TrappedBranch(u, hit)
                 ELSE BounceBranch(u, hit, norm)
        ELSE EscapedBranch(t)

\* One iteration of the loop.
LoopBody(s, isect, norm) ==
    LET found == test_ball_with_scene(s.ball, s.obstacles, isect)
        t == [s EXCEPT !.scans = @ + 1]
    IN  IF found.some
        THEN LET hit == found.val
                 u == [t EXCEPT !.path_length = FAdd(@, hit.distance),
                                !.no_bounces = @ + 1]
             IN  IF hit.distance < Epsilon \/ is_full(u.obstacles)
                 THEN TrappedBranch(u, hit)
                 ELSE BounceBranch(u, hit, norm)
        ELSE EscapedBranch(t)

\* single_simulation without the final truncate.
SimFinish_NoTruncate(s) == s

\* obstacles.truncate(clean_scene_size)
SimFinish(s) == [s EXCEPT !.obstacles = truncate(@, s.clean_scene_size)]

\* A whole call under one ray geometry: the same answers at every scan.
RECURSIVE RunLoop(_, _, _)
RunLoop(s, isect, norm) ==
    IF s.brk THEN s ELSE RunLoop(LoopBody(s, isect, norm), isect, norm)

single_simulation(cv, obs, start_pos, dir, ray) ==
    SimFinish(RunLoop(SimStart(cv, obs, start_pos, dir), ray.isect, ray.norm))

\* ------------------------------------------------------------- sim_thread
\* Ray geometries the trajectories of a batch are given: no intersection;
\* a hit of the first wall below the trap threshold; a hit of the first
\* wall whose reflection fails.
HitFirst(p, d) ==
    [i \in 1..SceneCapacity |-> IF i = 1 THEN SinglePoint(p, d)
                                 ELSE NoIntersection]
BatchRays ==
    {[isect |-> [i \in 1..SceneCapacity |-> NoIntersection], norm |-> None],
     [isect |-> HitFirst(Coord(-1, 0), 1), norm |-> None],
     [isect |-> HitFirst(Coord(Width, Height), MaxDist), norm |-> None]}

Workers == 1..MaxThreads

\* Accumulate with = in place of +=.
Accumulate_Overwrite(locked_canvas, thread_cv) ==
    [c \in Cells |-> thread_cv[c]]

\* The Accumulate arm: *p_out += p_in.clone() over the zipped cells.
Accumulate(locked_canvas, thread_cv) ==
    [c \in Cells |-> FAdd(locked_canvas[c], thread_cv[c])]

\* ------------------------------------------------------------- variables
VARIABLES
    sim,            \* the running single_simulation call (SimSpec)
    sim_pc,         \* "idle" | "loop" | "truncate"
    calls,          \* calls of single_simulation that have returned
    entry,          \* canvas and obstacles as they were at the call's entry
    shared_canvas,  \* the Canvas inside the Arc<Mutex<..>>
    mutex,          \* 0, or the worker that holds the lock
    w_pc,           \* worker -> position in sim_thread
    w_i,            \* worker -> trajectories done in the running batch
    thread_canvas,  \* worker -> its private canvas
    scene,          \* worker -> its obstacle collection
    batches,        \* worker -> batches completed (reports sent)
    merges,         \* worker -> Accumulate arms executed
    finished,       \* worker -> JoinHandle::is_finished
    to_thread,      \* worker -> queue of control messages
    from_thread,    \* worker -> queue of reports
    m_pc,           \* position of main
    m_t,            \* index of the for loop main is in
    thread_handles, \* the handles main still holds
    simulations_done,
    bar,            \* position of the progress bar
    final_canvas,   \* what main read for post-processing
    panic_line,     \* thread (0 is main) -> source line of its panic, or 0
    mg              \* the two merge orders compared in MergeSpec

sim_vars == <<sim, sim_pc, calls, entry>>
worker_vars == <<w_pc, w_i, thread_canvas, scene, batches, merges, finished>>
chan_vars == <<to_thread, from_thread>>
main_vars == <<m_pc, m_t, thread_handles, simulations_done, bar, final_canvas>>
run_vars == <<shared_canvas, mutex, worker_vars, chan_vars, main_vars,
              panic_line>>
vars == <<sim_vars, run_vars, mg>>

\* The state main is in at line 261, every worker spawned and not yet run.
RunInit ==
    /\ shared_canvas = NewCanvas
    /\ mutex = 0
    /\ w_pc = [w \in Workers |-> "start"]
    /\ w_i = [w \in Workers |-> 0]
    /\ thread_canvas = [w \in Workers |-> NewCanvas]
    /\ scene = [w \in Workers |-> <<>>]
    /\ batches = [w \in Workers |-> 0]
    /\ merges = [w \in Workers |-> 0]
    /\ finished = [w \in Workers |-> FALSE]
    /\ to_thread = [w \in Workers |-> <<>>]
    /\ from_thread = [w \in Workers |-> <<>>]
    /\ m_pc = "while"
    /\ m_t = 1
    /\ thread_handles = [i \in 1..MaxThreads |-> i]
    /\ simulations_done = 0
    /\ bar = 0
    /\ final_canvas = None
    /\ panic_line = [t \in 0..MaxThreads |-> 0]

MergeIdle ==
    mg = [shared |-> NewCanvas, a |-> NewCanvas, b |-> NewCanvas,
          ab |-> None, ba |-> None]

SimIdle ==
    /\ sim = SimStart(NewCanvas, initial_arena, Coord(0, 0), Coord(1, 0))
    /\ sim_pc = "idle"
    /\ calls = 0
    /\ entry = [canvas |-> NewCanvas, obstacles |-> initial_arena]

\* ---------------------------------------------------------------- SimSpec
SimInit == SimIdle /\ RunInit /\ MergeIdle

\* Lines 118-126: the call is entered on the canvas and the collection the
\* previous call left.
SimEnter ==
    /\ sim_pc = "idle"
    /\ calls < MaxCalls
    /\ \E p \in LaunchPoints, d \in LaunchDirs :
          sim' = SimStart(sim.canvas, sim.obstacles, p, d)
    /\ entry' = [canvas |-> sim.canvas, obstacles |-> sim.obstacles]
    /\ sim_pc' = "loop"
    /\ UNCHANGED <<calls, run_vars, mg>>

\* Lines 128-164: one iteration.
SimIterate ==
    /\ sim_pc = "loop"
    /\ \E isect \in Intersections(Len(sim.obstacles)), norm \in Reflections :
          sim' = LoopBody(sim, isect, norm)
    /\ sim_pc' = IF sim'.brk THEN "truncate" ELSE "loop"
    /\ UNCHANGED <<calls, entry, run_vars, mg>>

\* Lines 166-168.
SimReturn ==
    /\ sim_pc = "truncate"
    /\ sim' = SimFinish(sim)
    /\ sim_pc' = "idle"
    /\ calls' = calls + 1
    /\ UNCHANGED <<entry, run_vars, mg>>

SimNext == SimEnter \/ SimIterate \/ SimReturn

SimSpec == SimInit /\ [][SimNext]_vars

\* -------------------------------------------------------------- channels
\* A worker owns its control receiver and its report sender until its
\* closure has returned or unwound.
WorkerAlive(w) == w_pc[w] \notin {"returned", "panicked"}
\* main owns the control sender and the report receiver of the handles it
\* still holds.
HandleHeld(w) == \E i \in 1..Len(thread_handles) : thread_handles[i] = w

\* ------------------------------------------------------------- sim_thread
\* A panic of the worker at the given line: the closure unwinds.
WPanics(w, line) ==
    /\ w_pc' = [w_pc EXCEPT ![w] = "panicked"]
    /\ panic_line' = [panic_line EXCEPT ![w] = line]

\* Lines 186-191: width and height are read under the lock (taken and
\* released twice), then the private canvas, the arena and the rng are made.
WStartup(w) ==
    /\ w_pc[w] = "start"
    /\ mutex = 0
    /\ thread_canvas' = [thread_canvas EXCEPT ![w] = NewCanvas]
    /\ scene' = [scene EXCEPT ![w] = initial_arena]
    /\ w_pc' = [w_pc EXCEPT ![w] = "batch"]
    /\ UNCHANGED <<sim_vars, mg, shared_canvas, mutex, w_i, batches, merges,
                   finished, chan_vars, main_vars, panic_line>>

\* Lines 195-197: one single_simulation of the batch.  The model lets a
\* worker start at most MaxBatches batches while nothing asks for more.
WSimulate(w) ==
    /\ w_pc[w] = "batch"
    /\ w_i[w] < SimsPerReport
    /\ \/ batches[w] < MaxBatches
       \/ to_thread[w] # <<>>
       \/ ~HandleHeld(w)
    /\ \E p \in LaunchPoints, d \in LaunchDirs, ray \in BatchRays :
          LET r == single_simulation(thread_canvas[w], scene[w], p, d, ray)
          IN  /\ thread_canvas' = [thread_canvas EXCEPT ![w] = r.canvas]
              /\ scene' = [scene EXCEPT ![w] = r.obstacles]
    /\ w_i' = [w_i EXCEPT ![w] = @ + 1]
    /\ UNCHANGED <<sim_vars, mg, shared_canvas, mutex, w_pc, batches, merges,
                   finished, chan_vars, main_vars, panic_line>>

\* The report sent on a rendezvous channel: the send waits until main has
\* taken the previous report.
WReport_Rendezvous(w) ==
    /\ w_pc[w] = "batch"
    /\ w_i[w] = SimsPerReport
    /\ from_thread[w] = <<>>
    /\ IF HandleHeld(w)
       THEN /\ from_thread' = [from_thread EXCEPT ![w] = Append(@, SimsPerReport)]
            /\ batches' = [batches EXCEPT ![w] = @ + 1]
            /\ w_i' = [w_i EXCEPT ![w] = 0]
            /\ w_pc' = [w_pc EXCEPT ![w] = "poll"]
            /\ UNCHANGED panic_line
       ELSE /\ WPanics(w, 198)
            /\ UNCHANGED <<from_thread, batches, w_i>>
    /\ UNCHANGED <<sim_vars, mg, shared_canvas, mutex, thread_canvas, scene,
                   merges, finished, to_thread, main_vars>>

\* Line 198: tx.send(REPORT(NUMBER_OF_SIMS_PER_REPORT)).unwrap().
WReport(w) ==
    /\ w_pc[w] = "batch"
    /\ w_i[w] = SimsPerReport
    /\ IF HandleHeld(w)
       THEN /\ from_thread' = [from_thread EXCEPT ![w] = Append(@, SimsPerReport)]
            /\ batches' = [batches EXCEPT ![w] = @ + 1]
            /\ w_i' = [w_i EXCEPT ![w] = 0]
            /\ w_pc' = [w_pc EXCEPT ![w] = "poll"]
            /\ UNCHANGED panic_line
       ELSE /\ WPanics(w, 198)
            /\ UNCHANGED <<from_thread, batches, w_i>>
    /\ UNCHANGED <<sim_vars, mg, shared_canvas, mutex, thread_canvas, scene,
                   merges, finished, to_thread, main_vars>>

\* The match without a return in its STOP arm.
WPoll_IgnoreStop(w) ==
    /\ w_pc[w] = "poll"
    /\ IF to_thread[w] # <<>>
       THEN /\ to_thread' = [to_thread EXCEPT ![w] = Tail(@)]
            /\ w_pc' = [w_pc EXCEPT ![w] =
                          IF Head(to_thread[w]) = "ACCUMULATE" THEN "lock"
                          ELSE "batch"]
            /\ UNCHANGED panic_line
       ELSE IF ~HandleHeld(w)
       THEN WPanics(w, 211) /\ UNCHANGED to_thread
       ELSE /\ w_pc' = [w_pc EXCEPT ![w] = "batch"]
            /\ UNCHANGED <<to_thread, panic_line>>
    /\ UNCHANGED <<sim_vars, mg, shared_canvas, mutex, w_i, thread_canvas,
                   scene, batches, merges, finished, from_thread, main_vars>>

\* The control channel also polled inside a batch, between trajectories.
WPoll_InsideBatch(w) ==
    /\ w_pc[w] \in {"poll", "batch"}
    /\ IF to_thread[w] # <<>>
       THEN /\ to_thread' = [to_thread EXCEPT ![w] = Tail(@)]
            /\ w_pc' = [w_pc EXCEPT ![w] =
                          IF Head(to_thread[w]) = "ACCUMULATE" THEN "lock"
                          ELSE "returned"]
            /\ UNCHANGED panic_line
       ELSE IF ~HandleHeld(w)
       THEN WPanics(w, 211) /\ UNCHANGED to_thread
       ELSE /\ w_pc' = [w_pc EXCEPT ![w] = "batch"]
            /\ UNCHANGED <<to_thread, panic_line>>
    /\ UNCHANGED <<sim_vars, mg, shared_canvas, mutex, w_i, thread_canvas,
                   scene, batches, merges, finished, from_thread, main_vars>>

\* The Timeout arm returning like the STOP arm.
WPoll_ReturnsOnTimeout(w) ==
    /\ w_pc[w] = "poll"
    /\ IF to_thread[w] # <<>>
       THEN /\ to_thread' = [to_thread EXCEPT ![w] = Tail(@)]
            /\ w_pc' = [w_pc EXCEPT ![w] =
                          IF Head(to_thread[w]) = "ACCUMULATE" THEN "lock"
                          ELSE "returned"]
            /\ UNCHANGED panic_line
       ELSE IF ~HandleHeld(w)
       THEN WPanics(w, 211) /\ UNCHANGED to_thread
       ELSE /\ w_pc' = [w_pc EXCEPT ![w] = "returned"]
            /\ UNCHANGED <<to_thread, panic_line>>
    /\ UNCHANGED <<sim_vars, mg, shared_canvas, mutex, w_i, thread_canvas,
                   scene, batches, merges, finished, from_thread, main_vars>>

\* Lines 200-214: rx.recv_timeout(Duration::ZERO) and the match on it.
WPoll(w) ==
    /\ w_pc[w] = "poll"
    /\ IF to_thread[w] # <<>>
       THEN /\ to_thread' = [to_thread EXCEPT ![w] = Tail(@)]
            /\ w_pc' = [w_pc EXCEPT ![w] =
                          IF Head(to_thread[w]) = "ACCUMULATE" THEN "lock"
                          ELSE "returned"]
            /\ UNCHANGED panic_line
       ELSE IF ~HandleHeld(w)
       THEN WPanics(w, 211) /\ UNCHANGED to_thread
       ELSE /\ w_pc' = [w_pc EXCEPT ![w] = "batch"]
            /\ UNCHANGED <<to_thread, panic_line>>
    /\ UNCHANGED <<sim_vars, mg, shared_canvas, mutex, w_i, thread_canvas,
                   scene, batches, merges, finished, from_thread, main_vars>>

\* The merge entered without waiting for the lock.
WLock_NoWait(w) ==
    /\ w_pc[w] = "lock"
    /\ mutex' = w
    /\ w_pc' = [w_pc EXCEPT ![w] = "merge"]
    /\ UNCHANGED <<sim_vars, mg, shared_canvas, w_i, thread_canvas, scene,
                   batches, merges, finished, chan_vars, main_vars,
                   panic_line>>

\* Line 202: result_canvas.lock().unwrap() waits for the lock.
WLock(w) ==
    /\ w_pc[w] = "lock"
    /\ mutex = 0
    /\ mutex' = w
    /\ w_pc' = [w_pc EXCEPT ![w] = "merge"]
    /\ UNCHANGED <<sim_vars, mg, shared_canvas, w_i, thread_canvas, scene,
                   batches, merges, finished, chan_vars, main_vars,
                   panic_line>>

\* The Accumulate arm emptying the private canvas once it is merged.
WMerge_Clears(w) ==
    /\ w_pc[w] = "merge"
    /\ shared_canvas' = Accumulate(shared_canvas, thread_canvas[w])
    /\ thread_canvas' = [thread_canvas EXCEPT ![w] = NewCanvas]
    /\ merges' = [merges EXCEPT ![w] = @ + 1]
    /\ mutex' = 0
    /\ w_pc' = [w_pc EXCEPT ![w] = "batch"]
    /\ UNCHANGED <<sim_vars, mg, w_i, scene, batches,
                   finished, chan_vars, main_vars, panic_line>>

\* The Accumulate arm going back to the receive, not to the next batch.
WMerge_PollsAgain(w) ==
    /\ w_pc[w] = "merge"
    /\ shared_canvas' = Accumulate(shared_canvas, thread_canvas[w])
    /\ merges' = [merges EXCEPT ![w] = @ + 1]
    /\ mutex' = 0
    /\ w_pc' = [w_pc EXCEPT ![w] = "poll"]
    /\ UNCHANGED <<sim_vars, mg, w_i, thread_canvas, scene, batches,
                   finished, chan_vars, main_vars, panic_line>>

\* Lines 203-206: the cells are added and the guard is dropped; the loop
\* goes on with the next batch.
WMerge(w) ==
    /\ w_pc[w] = "merge"
    /\ shared_canvas' = Accumulate(shared_canvas, thread_canvas[w])
    /\ merges' = [merges EXCEPT ![w] = @ + 1]
    /\ mutex' = 0
    /\ w_pc' = [w_pc EXCEPT ![w] = "batch"]
    /\ UNCHANGED <<sim_vars, mg, w_i, thread_canvas, scene, batches,
                   finished, chan_vars, main_vars, panic_line>>

\* The closure has returned or unwound: the thread is seen finished.
WExit(w) ==
    /\ ~WorkerAlive(w)
    /\ ~finished[w]
    /\ finished' = [finished EXCEPT ![w] = TRUE]
    /\ UNCHANGED <<sim_vars, mg, shared_canvas, mutex, w_pc, w_i,
                   thread_canvas, scene, batches, merges, chan_vars,
                   main_vars, panic_line>>

\* A panic inside a batch (an unwrap of single_simulation, the shader).
WFault(w) ==
    /\ w_pc[w] = "batch"
    /\ WPanics(w, 196)
    /\ UNCHANGED <<sim_vars, mg, shared_canvas, mutex, w_i, thread_canvas,
                   scene, batches, merges, finished, chan_vars, main_vars>>

Worker(w) ==
    \/ WStartup(w) \/ WSimulate(w) \/ WReport(w) \/ WPoll(w)
    \/ WLock(w) \/ WMerge(w) \/ WExit(w)

\* ------------------------------------------------------------------- main
\* A panic of main at the given line unwinds: the handles are dropped.
MainPanics(line) ==
    /\ m_pc' = "panicked"
    /\ panic_line' = [panic_line EXCEPT ![0] = line]
    /\ thread_handles' = <<>>
    /\ UNCHANGED <<m_t, simulations_done, bar, final_canvas>>

\* The while condition with <= in place of <.
MWhile_OneMore ==
    /\ m_pc = "while"
    /\ m_pc' = IF simulations_done <= TotalSimulations THEN "poll" ELSE "send_acc"
    /\ m_t' = 1
    /\ UNCHANGED <<sim_vars, mg, shared_canvas, mutex, worker_vars, chan_vars,
                   thread_handles, simulations_done, bar, final_canvas,
                   panic_line>>

\* Line 262: while simulations_done < total_simulations; line 280.
MWhile ==
    /\ m_pc = "while"
    /\ m_pc' = IF simulations_done < TotalSimulations THEN "poll" ELSE "send_acc"
    /\ m_t' = 1
    /\ UNCHANGED <<sim_vars, mg, shared_canvas, mutex, worker_vars, chan_vars,
                   thread_handles, simulations_done, bar, final_canvas,
                   panic_line>>

\* The for loop of lines 263-278 goes to its next handle, or ends.
PollAdvance ==
    /\ m_pc' = IF m_t = Len(thread_handles) THEN "while" ELSE "poll"
    /\ m_t' = IF m_t = Len(thread_handles) THEN 1 ELSE m_t + 1
    /\ UNCHANGED <<thread_handles, final_canvas, panic_line>>

\* The report arm counting one trajectory too many.
ReportArm_Extra(t) ==
    /\ simulations_done' = simulations_done + Head(from_thread[t]) + 1
    /\ bar' = bar + Head(from_thread[t]) + 1
    /\ from_thread' = [from_thread EXCEPT ![t] = Tail(@)]
    /\ PollAdvance

\* Lines 267-271: Ok(REPORT(n)).
ReportArm(t) ==
    /\ simulations_done' = simulations_done + Head(from_thread[t])
    /\ bar' = bar + Head(from_thread[t])
    /\ from_thread' = [from_thread EXCEPT ![t] = Tail(@)]
    /\ PollAdvance

\* Line 276: Err(RecvTimeoutError::Timeout).
TimeoutArm ==
    /\ PollAdvance
    /\ UNCHANGED <<from_thread, simulations_done, bar>>

\* The Disconnected arm handled like a timeout.
DisconnectedArm_AsTimeout ==
    /\ PollAdvance
    /\ UNCHANGED <<from_thread, simulations_done, bar>>

\* Lines 272-274: Err(RecvTimeoutError::Disconnected).
DisconnectedArm ==
    /\ MainPanics(273)
    /\ UNCHANGED from_thread

\* Lines 263-278: the assertion and the receive for one handle.
MPoll ==
    /\ m_pc = "poll"
    /\ LET t == thread_handles[m_t]
       IN  IF finished[t]
           THEN MainPanics(264) /\ UNCHANGED from_thread
           ELSE IF from_thread[t] # <<>> THEN ReportArm(t)
           ELSE IF ~WorkerAlive(t) THEN DisconnectedArm
           ELSE TimeoutArm
    /\ UNCHANGED <<sim_vars, mg, shared_canvas, mutex, worker_vars, to_thread>>

\* Line 283: thread.to_thread.send(ACCUMULATE).unwrap().
MSendAccumulate ==
    /\ m_pc = "send_acc"
    /\ LET t == thread_handles[m_t]
       IN  IF WorkerAlive(t)
           THEN /\ to_thread' = [to_thread EXCEPT ![t] = Append(@, "ACCUMULATE")]
                /\ m_pc' = "send_stop"
                /\ UNCHANGED <<m_t, thread_handles, simulations_done, bar,
                               final_canvas, panic_line>>
           ELSE MainPanics(283) /\ UNCHANGED to_thread
    /\ UNCHANGED <<sim_vars, mg, shared_canvas, mutex, worker_vars,
                   from_thread>>

\* Line 284: thread.to_thread.send(STOP).unwrap().
MSendStop ==
    /\ m_pc = "send_stop"
    /\ LET t == thread_handles[m_t]
       IN  IF WorkerAlive(t)
           THEN /\ to_thread' = [to_thread EXCEPT ![t] = Append(@, "STOP")]
                /\ m_pc' = IF m_t = Len(thread_handles) THEN "join" ELSE "send_acc"
                /\ m_t' = IF m_t = Len(thread_handles) THEN 1 ELSE m_t + 1
                /\ UNCHANGED <<thread_handles, simulations_done, bar,
                               final_canvas, panic_line>>
           ELSE MainPanics(284) /\ UNCHANGED to_thread
    /\ UNCHANGED <<sim_vars, mg, shared_canvas, mutex, worker_vars,
                   from_thread>>

\* The handles popped without waiting for their threads.
MJoin_NoWait ==
    /\ m_pc = "join"
    /\ IF thread_handles = <<>>
       THEN /\ m_pc' = "post"
            /\ UNCHANGED <<m_t, thread_handles, simulations_done, bar,
                           final_canvas, panic_line>>
       ELSE /\ thread_handles' =
                  SubSeq(thread_handles, 1, Len(thread_handles) - 1)
            /\ UNCHANGED <<m_pc, m_t, simulations_done, bar, final_canvas,
                           panic_line>>
    /\ UNCHANGED <<sim_vars, mg, shared_canvas, mutex, worker_vars, chan_vars>>

\* Lines 287-290: pop the last handle and join it; the handle's channel
\* ends are dropped when the join has returned.
MJoin ==
    /\ m_pc = "join"
    /\ IF thread_handles = <<>>
       THEN /\ m_pc' = "post"
            /\ UNCHANGED <<m_t, thread_handles, simulations_done, bar,
                           final_canvas, panic_line>>
       ELSE LET t == thread_handles[Len(thread_handles)]
            IN  /\ finished[t]
                /\ IF w_pc[t] = "panicked"
                   THEN MainPanics(289)
                   ELSE /\ thread_handles' =
                              SubSeq(thread_handles, 1, Len(thread_handles) - 1)
                        /\ UNCHANGED <<m_pc, m_t, simulations_done, bar,
                                       final_canvas, panic_line>>
    /\ UNCHANGED <<sim_vars, mg, shared_canvas, mutex, worker_vars, chan_vars>>

\* Line 294: shared_canvas.lock().unwrap() and the reads of lines 296-300.
MPost ==
    /\ m_pc = "post"
    /\ mutex = 0
    /\ final_canvas' = Some(shared_canvas)
    /\ m_pc' = "done"
    /\ UNCHANGED <<sim_vars, mg, shared_canvas, mutex, worker_vars, chan_vars,
                   m_t, thread_handles, simulations_done, bar, panic_line>>

Main == MWhile \/ MPoll \/ MSendAccumulate \/ MSendStop \/ MJoin \/ MPost

\* ------------------------------------------------------------------- Spec
Init == SimIdle /\ RunInit /\ MergeIdle

Next == Main \/ \E w \in Workers : Worker(w)

Spec == Init /\ [][Next]_vars

\* The run with panics inside batches.
FaultNext == Next \/ \E w \in Workers : WFault(w)

FaultSpec == Init /\ [][FaultNext]_vars

\* The run under fair scheduling of main and of every worker.
FairSpec ==
    /\ Init
    /\ [][Next]_vars
    /\ WF_vars(Main)
    /\ \A w \in Workers : WF_vars(Worker(w))

\* -------------------------------------------------------------- MergeSpec
\* Two private canvases merged into one shared canvas in both orders.
OneCell(c, v) == [NewCanvas EXCEPT ![c] = v]
\* A shared cell is empty or holds the largest value whose neighbours are
\* one unit away.
SharedCanvases == {OneCell(c, v) : c \in Cells, v \in {0, Pow2(MantissaBits) - 1}}
PrivateCanvases == {OneCell(c, v) : c \in Cells, v \in 0..MaxPrivate}

MergeInit ==
    /\ SimIdle
    /\ RunInit
    /\ \E sh \in SharedCanvases, a \in PrivateCanvases, b \in PrivateCanvases :
          mg = [shared |-> sh, a |-> a, b |-> b, ab |-> None, ba |-> None]

\* Worker a takes the lock first, then worker b.
MergeAB ==
    /\ ~mg.ab.some
    /\ mg' = [mg EXCEPT !.ab = Some(Accumulate(Accumulate(mg.shared, mg.a), mg.b))]
    /\ UNCHANGED <<sim_vars, run_vars>>

\* Worker b takes the lock first, then worker a.
MergeBA ==
    /\ ~mg.ba.some
    /\ mg' = [mg EXCEPT !.ba = Some(Accumulate(Accumulate(mg.shared, mg.b), mg.a))]
    /\ UNCHANGED <<sim_vars, run_vars>>

MergeNext == MergeAB \/ MergeBA

MergeSpec == MergeInit /\ [][MergeNext]_vars

\* ----------------------------------------------------------------- claims
\* Trajectories worker w has completed.
Completed(w) == batches[w] * SimsPerReport + w_i[w]

RECURSIVE SumCompleted(_)
SumCompleted(n) == IF n = 0 THEN 0 ELSE SumCompleted(n - 1) + Completed(n)

\* The private canvases of workers f[1], .., f[n] merged in that order into
\* an empty shared canvas.
RECURSIVE MergedInOrder(_, _)
MergedInOrder(f, n) ==
    IF n = 0 THEN NewCanvas
    ELSE Accumulate(MergedInOrder(f, n - 1), thread_canvas[f[n]])

\* C1: when main hands the shared canvas to post-processing, the canvas is
\* the sum of the writes of all trajectories completed by all workers, that
\* is the private canvases of all workers merged once each in some order.
C1_EveryBatchMergedOnce ==
    final_canvas.some =>
        \E f \in Permutations(Workers) :
            final_canvas.val = MergedInOrder(f, MaxThreads)

\* C2: when main reads the shared canvas for post-processing, every worker
\* has terminated and has executed its Accumulate arm exactly once.
C2_AllJoinedAndMergedOnce ==
    m_pc \in {"post", "done"} =>
        \A w \in Workers :
            w_pc[w] = "returned" /\ finished[w] /\ merges[w] = 1

C2_Witness ==
    /\ m_pc = "post"
    /\ \A w \in Workers : merges[w] = 1 /\ batches[w] >= 2

\* C3: under fair scheduling and without panics the run terminates: the poll
\* loop exits, every worker receives Stop and returns, every join completes
\* and main reaches post-processing.
C3_RunTerminates ==
    <>(/\ m_pc = "done"
       /\ thread_handles = <<>>
       /\ \A w \in Workers : w_pc[w] = "returned" /\ finished[w])

C3_Witness ==
    /\ m_pc = "done"
    /\ thread_handles = <<>>
    /\ simulations_done >= TotalSimulations
    /\ \A w \in Workers : to_thread[w] = <<>>

\* No Accumulate has been sent: main has not executed line 283 yet.
NoAccumulateSent ==
    \/ m_pc \in {"while", "poll"}
    \/ m_pc = "send_acc" /\ m_t = 1

\* C4: the shared canvas is written only by a worker that is in its
\* Accumulate arm and holds the lock, at most one worker is merging at a
\* time, and the shared canvas keeps its initial contents as long as no
\* Accumulate has been sent.
C4_SharedWrittenOnlyUnderLock ==
    /\ [](Cardinality({w \in Workers : w_pc[w] = "merge"}) <= 1)
    /\ [](\A w \in Workers : w_pc[w] = "merge" => mutex = w)
    /\ [](NoAccumulateSent => shared_canvas = NewCanvas)
    /\ [][shared_canvas' # shared_canvas =>
            \E w \in Workers :
               /\ w_pc[w] = "merge"
               /\ mutex = w
               /\ merges'[w] = merges[w] + 1]_vars

C4_Witness ==
    \E w1 \in Workers, w2 \in Workers :
        /\ w_pc[w1] = "merge"
        /\ w_pc[w2] = "lock"
        /\ thread_canvas[w1] # NewCanvas

\* C5: whenever single_simulation has returned, the obstacle collection is
\* what it was on entry and has the baseline length, whatever the outcome
\* and however many calls went before; the arena entries never change.
C5_SceneRestored ==
    /\ Len(sim.obstacles) >= ArenaEdges
    /\ SubSeq(sim.obstacles, 1, ArenaEdges) = initial_arena
    /\ sim_pc = "idle" =>
          /\ sim.obstacles = entry.obstacles
          /\ Len(sim.obstacles) = ArenaEdges

C5_Witness ==
    /\ sim_pc = "idle"
    /\ calls = MaxCalls
    /\ sim.outcome = "trapped_full"
    /\ sim.refl_failed > 0

\* C6: one run of single_simulation calls the shader at most once: exactly
\* once when the trajectory ends Trapped and never otherwise.
C6_ScoredAtMostOnce ==
    /\ sim.shader_calls <= 1
    /\ sim.brk =>
          (sim.shader_calls = 1 <=>
               sim.outcome \in {"trapped_eps", "trapped_full"})

\* C7: when the first scan of a trajectory finds no intersection, the loop
\* ends with the canvas and the obstacle collection as they were on entry.
C7_EscapedChangesNothing ==
    (sim.brk /\ sim.outcome = "escaped" /\ sim.scans = 1) =>
        /\ sim.canvas = entry.canvas
        /\ sim.obstacles = entry.obstacles

C7_Witness ==
    /\ sim_pc = "truncate"
    /\ sim.outcome = "escaped"
    /\ sim.scans = 1
    /\ entry.canvas # NewCanvas

\* C8: main's running total and the progress bar never decrease, change
\* only by the count of a report that is received, and never exceed the
\* number of trajectories the workers have completed.
C8_TotalCountsReceivedReports ==
    /\ [](simulations_done <= SumCompleted(MaxThreads))
    /\ [](bar = simulations_done)
    /\ [][simulations_done' >= simulations_done]_vars
    /\ [][simulations_done' # simulations_done =>
            \E t \in Workers :
               /\ from_thread[t] # <<>>
               /\ from_thread'[t] = Tail(from_thread[t])
               /\ simulations_done' = simulations_done + Head(from_thread[t])]_vars

C8_Witness ==
    /\ simulations_done > TotalSimulations
    /\ simulations_done < SumCompleted(MaxThreads)

\* C9: a report channel found disconnected in the poll loop makes main
\* panic, after which main sends nothing and never reaches post-processing;
\* a worker that finds its control channel empty and disconnected panics
\* and does nothing more.
C9_DisconnectAborts ==
    /\ [][(/\ m_pc = "poll"
           /\ from_thread[thread_handles[m_t]] = <<>>
           /\ ~WorkerAlive(thread_handles[m_t])
           /\ <<m_pc, m_t>>' # <<m_pc, m_t>>)
          => m_pc' = "panicked"]_vars
    /\ [][m_pc = "panicked" =>
            /\ m_pc' = "panicked"
            /\ \A w \in Workers : Len(to_thread'[w]) <= Len(to_thread[w])
            /\ final_canvas' = final_canvas]_vars
    /\ [](m_pc = "panicked" => final_canvas = None)
    /\ [][\A w \in Workers :
            (/\ w_pc[w] = "poll"
             /\ to_thread[w] = <<>>
             /\ ~HandleHeld(w)
             /\ w_pc'[w] # "poll")
            => w_pc'[w] = "panicked"]_vars
    /\ [][\A w \in Workers :
            w_pc[w] = "panicked" =>
               /\ w_pc'[w] = "panicked"
               /\ thread_canvas'[w] = thread_canvas[w]
               /\ batches'[w] = batches[w]
               /\ merges'[w] = merges[w]]_vars

C9_Witness ==
    /\ panic_line[0] = 273
    /\ \E w \in Workers : panic_line[w] = 211

\* C10 as stated: merging two private canvases into the shared canvas in
\* either order gives the same cells.
C10_OrderIndependent ==
    (mg.ab.some /\ mg.ba.some) => mg.ab.val = mg.ba.val

\* C10 amended: merging two private canvases in either order into a shared
\* canvas that still holds its initial zeros gives the same cells.
C10_OrderIndependentFromEmpty ==
    (mg.ab.some /\ mg.ba.some /\ mg.shared = NewCanvas) =>
        mg.ab.val = mg.ba.val

C10_Witness ==
    /\ mg.ab.some
    /\ mg.ba.some
    /\ mg.shared = NewCanvas
    /\ mg.a # mg.b
    /\ mg.a # NewCanvas
    /\ mg.b # NewCanvas
    /\ mg.ab.val # mg.a

\* C11: when the reflection after a hit fails, the trajectory ends Trapped
\* at that hit: it writes once, at that hit, and the loop ends in the same
\* iteration, with no further scan.
C11_ReflectionFailureTraps ==
    sim.refl_failed > 0 =>
        /\ sim.brk
        /\ sim.outcome \in {"trapped_eps", "trapped_full"}
        /\ sim.refl_failed = 1
        /\ sim.shader_calls = 1

\* C12: the obstacle collection never holds more than its capacity and a
\* wall is appended only to a collection that is not full, so the push
\* never fails; a hit found while the collection is full ends the
\* trajectory Trapped at that hit with one buffer write and no append.
C12_PushNeverFails ==
    /\ [](Len(sim.obstacles) <= SceneCapacity)
    /\ [](sim.outcome # "panic")
    /\ [][Len(sim'.obstacles) > Len(sim.obstacles) =>
            ~is_full(sim.obstacles)]_vars
    /\ [][(/\ sim_pc = "loop"
           /\ is_full(sim.obstacles)
           /\ sim'.no_bounces = sim.no_bounces + 1)
          => /\ sim'.brk
             /\ sim'.outcome \in {"trapped_eps", "trapped_full"}
             /\ sim'.obstacles = sim.obstacles
             /\ sim'.shader_calls = sim.shader_calls + 1
             /\ \E c \in Cells :
                   sim'.canvas =
                       [sim.canvas EXCEPT ![c] = FAdd(@, sim'.path_length)]]_vars

C12_Witness ==
    /\ sim_pc = "truncate"
    /\ sim.outcome = "trapped_full"
    /\ Len(sim.obstacles) = SceneCapacity
    /\ sim.canvas # entry.canvas

\* C13: single_simulation terminates: every iteration of the loop either
\* ends the trajectory or appends one wall, the iterations whose reflection
\* fails included, so a call that starts with K obstacles in a collection
\* of capacity C makes at most C - K + 1 nearest-hit scans.
C13_ScansBounded ==
    /\ [](sim.scans <= SceneCapacity - sim.clean_scene_size + 1)
    /\ [](sim.scans = SceneCapacity - sim.clean_scene_size + 1 => sim.brk)
    /\ [][(sim_pc = "loop" /\ sim'.scans = sim.scans + 1) =>
            \/ sim'.brk
            \/ Len(sim'.obstacles) = Len(sim.obstacles) + 1]_vars

C13_Witness ==
    /\ sim.scans = SceneCapacity - ArenaEdges + 1
    /\ sim.refl_failed = SceneCapacity - ArenaEdges
    /\ sim.brk

\* C17: for every scene the simulator reaches and every answer of the
\* intersection tests, the nearest-hit scan returns none exactly when no
\* obstacle intersects the ray in a single point, and otherwise the
\* intersecting obstacle at the least distance, the first one in
\* collection order when several are at that distance.
C17_NearestHitFirstWins ==
    \A isect \in Intersections(Len(sim.obstacles)) :
        LET r == test_ball_with_scene(sim.ball, sim.obstacles, isect)
            hits == {i \in 1..Len(sim.obstacles) : isect[i].single}
        IN  /\ r.some <=> hits # {}
            /\ r.some =>
                  \E i \in hits :
                     /\ \A j \in hits :
                           isect[i].distance <= isect[j].distance
                     /\ \A j \in hits :
                           isect[j].distance = isect[i].distance => i <= j
                     /\ r.val = [line |-> sim.obstacles[i],
                                 pt |-> isect[i].pt,
                                 distance |-> isect[i].distance]

C17_Witness ==
    /\ sim.scans >= 1
    /\ Len(sim.obstacles) = SceneCapacity
    /\ \E isect \in Intersections(Len(sim.obstacles)) :
          \E i \in 1..Len(sim.obstacles), j \in 1..Len(sim.obstacles) :
             /\ i < j
             /\ isect[i].single
             /\ isect[j].single
             /\ isect[i].distance = isect[j].distance
             /\ isect[i].pt # isect[j].pt
             /\ sim.obstacles[i] # sim.obstacles[j]
             /\ test_ball_with_scene(sim.ball, sim.obstacles, isect).val.pt
                    = isect[i].pt

\* C14 as stated: once main's running total is at or above the target, main
\* consumes no further report.
C14_NoReportAfterTarget ==
    [][simulations_done >= TotalSimulations =>
          simulations_done' = simulations_done]_vars

\* C14 amended: main tests the total only between passes over the workers.
\* A report consumed with the total already at the target is consumed later
\* in the pass in which the target was reached; on the first test that sees
\* the total at the target main leaves the loop for good, having overshot
\* the target by less than one report per worker.
C14_LoopLeftAfterPass ==
    /\ [][simulations_done' # simulations_done => m_pc = "poll"]_vars
    /\ [][(simulations_done >= TotalSimulations
           /\ simulations_done' # simulations_done) => m_t > 1]_vars
    /\ [][(m_pc = "while" /\ simulations_done >= TotalSimulations) =>
            m_pc' \in {"while", "send_acc"}]_vars
    /\ [][m_pc \notin {"while", "poll"} =>
            m_pc' \notin {"while", "poll"}]_vars
    /\ [](m_pc \notin {"while", "poll", "panicked"} =>
            simulations_done >= TotalSimulations)
    /\ [](simulations_done < TotalSimulations + MaxThreads * SimsPerReport)

C14_Witness ==
    /\ m_pc = "send_acc"
    /\ m_t = 1
    /\ simulations_done > TotalSimulations

\* The counts of the reports in a report queue, added up.
RECURSIVE SumReports(_)
SumReports(q) == IF q = <<>> THEN 0 ELSE Head(q) + SumReports(Tail(q))

RECURSIVE SumInFlight(_)
SumInFlight(n) ==
    IF n = 0 THEN 0 ELSE SumInFlight(n - 1) + SumReports(from_thread[n])

RECURSIVE SumBatches(_)
SumBatches(n) == IF n = 0 THEN 0 ELSE SumBatches(n - 1) + batches[n]

\* C15: a worker takes a control message only in its poll, one per poll,
\* and enters the poll only by sending the report of a whole batch, which
\* carries the batch size; a batch that is under way goes on whatever is
\* in the control queue; at every poll all trajectories the worker has
\* completed are reported, and the reports sent are as many as the batches.
C15_ControlOnlyAtBatchBoundary ==
    /\ [][\A w \in Workers :
            Len(to_thread'[w]) < Len(to_thread[w]) =>
               /\ w_pc[w] = "poll"
               /\ w_pc'[w] # "poll"
               /\ to_thread'[w] = Tail(to_thread[w])]_vars
    /\ [][\A w \in Workers :
            (w_pc'[w] = "poll" /\ w_pc[w] # "poll") =>
               /\ w_pc[w] = "batch"
               /\ w_i[w] = SimsPerReport
               /\ from_thread'[w] = Append(from_thread[w], SimsPerReport)
               /\ batches'[w] = batches[w] + 1]_vars
    /\ [][\A w \in Workers :
            Len(from_thread'[w]) > Len(from_thread[w]) =>
               w_pc[w] = "batch" /\ w_pc'[w] = "poll"]_vars
    /\ [][\A w \in Workers :
            (w_pc[w] = "batch" /\ w_i[w] < SimsPerReport) =>
               /\ w_pc'[w] = "batch"
               /\ w_i'[w] \in {w_i[w], w_i[w] + 1}]_vars
    /\ [](\A w \in Workers :
            /\ w_i[w] <= SimsPerReport
            /\ w_pc[w] # "batch" => Completed(w) = batches[w] * SimsPerReport)
    /\ [](SumBatches(MaxThreads) * SimsPerReport =
            simulations_done + SumInFlight(MaxThreads))

C15_Witness ==
    \E w \in Workers :
        /\ w_pc[w] = "batch"
        /\ w_i[w] = 0
        /\ batches[w] >= 1
        /\ merges[w] = 0
        /\ to_thread[w] = <<"ACCUMULATE", "STOP">>
        /\ Len(from_thread[w]) = batches[w]

C18_AccumulateFrame ==
    [][\A w \in Workers :
         merges'[w] # merges[w] =>
            /\ merges'[w] = merges[w] + 1
            /\ \A c \in Cells :
                  shared_canvas'[c] = FAdd(shared_canvas[c], thread_canvas[w][c])
            /\ thread_canvas' = thread_canvas
            /\ scene' = scene
            /\ w_i' = w_i
            /\ batches' = batches]_vars

C18_Witness ==
    \E w \in Workers :
        /\ merges[w] = 1
        /\ w_pc[w] = "batch"
        /\ w_i[w] = 0
        /\ to_thread[w] = <<"STOP">>
        /\ thread_canvas[w] # NewCanvas
        /\ shared_canvas # thread_canvas[w]
        /\ \E c \in Cells : thread_canvas[w][c] > 0 /\ shared_canvas[c] > 0

\* C19: main sends a control message only once its total is at the target,
\* so as long as main is in its poll loop every control queue is empty, no
\* worker has merged, returned or been seen finished, and the assertion of
\* line 264 never fails.
C19_AssertionHolds ==
    /\ [][\A w \in Workers :
            Len(to_thread'[w]) > Len(to_thread[w]) =>
               /\ simulations_done >= TotalSimulations
               /\ m_pc \in {"send_acc", "send_stop"}]_vars
    /\ [](\A w \in Workers :
            (simulations_done < TotalSimulations \/ m_pc \in {"while", "poll"}) =>
               /\ to_thread[w] = <<>>
               /\ merges[w] = 0
               /\ WorkerAlive(w)
               /\ ~finished[w])
    /\ [](panic_line[0] # 264)

C19_Witness ==
    /\ m_pc = "poll"
    /\ m_t = MaxThreads
    /\ simulations_done >= TotalSimulations
    /\ \A w \in Workers : batches[w] >= 1 /\ w_pc[w] = "batch"

\* The batches worker w still completes before it returns, once a STOP is
\* in its control queue: by its position and by whether the ACCUMULATE is
\* still queued ahead of the STOP.
FurtherBatches(w) ==
    IF to_thread[w] = <<"ACCUMULATE", "STOP">>
    THEN IF w_pc[w] = "poll" THEN 1 ELSE 2
    ELSE IF w_pc[w] \in {"poll", "returned"} THEN 0 ELSE 1

StopQueued(w) ==
    \/ to_thread[w] \in {<<"ACCUMULATE", "STOP">>, <<"STOP">>}
    \/ w_pc[w] = "returned"

====
